---- MODULE Spec2Model ----
(***************************************************************************)
(* A model of the ZenML server excerpts: the RBAC resource model           *)
(* (zen_server/rbac/models.py), the workspace endpoints                    *)
(* (zen_server/routers/workspaces_endpoints.py), the trigger and           *)
(* trigger-execution schemas (zen_stores/schemas/trigger_schemas.py) and   *)
(* the action models (models/v2/core/action.py).                           *)
(***************************************************************************)
EXTENDS Integers, Sequences, FiniteSets, TLC

VARIABLES
    resources,      \* the RBAC Resource objects constructed so far
    rbacOp,         \* the last RBAC operation attempted and its outcome
    workspaces,     \* the store's workspace table (the keys of its rows)
    httpRequest,    \* the HTTP request being served by the workspace router
    calls,          \* the calls the request has made so far, in order
    response,       \* the HTTP response of the request
    users,          \* the store's user table (the keys of its rows)
    event_sources,  \* the store's event_source table: id -> row
    triggers,       \* the store's trigger table: id -> TriggerSchema row
    executions,     \* the store's trigger_execution table: id -> row
    actions,        \* the store's actions: id -> row
    now,            \* what datetime.utcnow() returns
    lastOp,         \* the last store operation, its input and its result
    document,       \* the document a codec run sends through the store
    dispatches,     \* the dispatcher's events: id -> the state of the dispatch
    executor_calls  \* the calls made to the Action Executor and their outcomes

rbacVars == <<resources, rbacOp>>
httpVars == <<httpRequest, calls, response>>
tableVars == <<workspaces, users, event_sources, triggers, executions, actions>>
storeVars == <<now, lastOp, document>>
dispatchVars == <<dispatches, executor_calls>>

vars == <<resources, rbacOp, workspaces, httpRequest, calls, response, users,
          event_sources, triggers, executions, actions, now, lastOp, document,
          dispatches, executor_calls>>

\* Python's None
None == "None"

(***************************************************************************)
(* The opaque configuration documents: json.dumps, str.encode,             *)
(* base64.b64encode and their inverses, as trigger_schemas.py applies them *)
(***************************************************************************)

\* A Python value that json.dumps accepts: None, a bool, an int, a str (a
\* sequence of characters), a list, or a dict with str keys in insertion
\* order.
JNull == [ t |-> "null" ]
JBool(b) == [ t |-> "bool", b |-> b ]
JInt(n) == [ t |-> "int", n |-> n ]
JStr(s) == [ t |-> "str", s |-> s ]
JList(elems) == [ t |-> "list", elems |-> elems ]
JDict(items) == [ t |-> "dict", items |-> items ]
Item(k, v) == [ k |-> k, v |-> v ]

\* The printable ASCII characters, code 32 first (code 96, the grave accent,
\* is written by name).
Ascii ==
    << " ", "!", "\"", "#", "$", "%", "&", "'", "(", ")", "*", "+", ",", "-",
       ".", "/", "0", "1", "2", "3", "4", "5", "6", "7", "8", "9", ":", ";",
       "<", "=", ">", "?", "@", "A", "B", "C", "D", "E", "F", "G", "H", "I",
       "J", "K", "L", "M", "N", "O", "P", "Q", "R", "S", "T", "U", "V", "W",
       "X", "Y", "Z", "[", "\\", "]", "^", "_", "grave", "a", "b", "c", "d", "e",
       "f", "g", "h", "i", "j", "k", "l", "m", "n", "o", "p", "q", "r", "s",
       "t", "u", "v", "w", "x", "y", "z", "{", "|", "}", "~" >>

\* ord() and chr() on these characters.
OrdTable ==
    [ c \in { Ascii[i] : i \in 1 .. Len(Ascii) } |->
        31 + (CHOOSE i \in 1 .. Len(Ascii) : Ascii[i] = c) ]
Ord(c) == OrdTable[c]
Chr(b) == Ascii[b - 31]

\* str.encode("utf-8") and bytes.decode() on ASCII text.
encode_utf8(chars) == [ i \in 1 .. Len(chars) |-> Ord(chars[i]) ]
decode_utf8(bytes) == [ i \in 1 .. Len(bytes) |-> Chr(bytes[i]) ]

Digits == << "0", "1", "2", "3", "4", "5", "6", "7", "8", "9" >>

RECURSIVE NatChars(_)
NatChars(n) ==
    IF n < 10 THEN << Digits[n + 1] >>
    ELSE NatChars(n \div 10) \o << Digits[(n % 10) + 1] >>

IntChars(n) == IF n < 0 THEN << "-" >> \o NatChars(0 - n) ELSE NatChars(n)

\* A mutant of the string literal: nothing is escaped.
Unescaped(s) == s

\* The JSON string literal of a str: the quote and the backslash are escaped.
RECURSIVE EscapeChars(_)
EscapeChars(s) ==
    IF s = << >> THEN << >>
    ELSE (IF Head(s) \in { "\"", "\\" } THEN << "\\", Head(s) >>
          ELSE << Head(s) >>) \o EscapeChars(Tail(s))

StrLiteral(s) == << "\"" >> \o EscapeChars(s) \o << "\"" >>

\* json.dumps with its default separators (", " and ": ").
RECURSIVE json_dumps(_)
RECURSIVE DumpElems(_)
RECURSIVE DumpItems(_)
json_dumps(v) ==
    CASE v.t = "null" -> << "n", "u", "l", "l" >>
      [] v.t = "bool" -> IF v.b THEN << "t", "r", "u", "e" >>
                         ELSE << "f", "a", "l", "s", "e" >>
      [] v.t = "int" -> IntChars(v.n)
      [] v.t = "str" -> StrLiteral(v.s)
      [] v.t = "list" -> << "[" >> \o DumpElems(v.elems) \o << "]" >>
      [] v.t = "dict" -> << "{" >> \o DumpItems(v.items) \o << "}" >>

DumpElems(elems) ==
    IF elems = << >> THEN << >>
    ELSE json_dumps(Head(elems))
         \o (IF Len(elems) > 1 THEN << ",", " " >> ELSE << >>)
         \o DumpElems(Tail(elems))

DumpItems(items) ==
    IF items = << >> THEN << >>
    ELSE StrLiteral(Head(items).k) \o << ":", " " >> \o json_dumps(Head(items).v)
         \o (IF Len(items) > 1 THEN << ",", " " >> ELSE << >>)
         \o DumpItems(Tail(items))

\* json.loads: a recursive-descent reading of the text. Each Parse operator
\* takes the text and a position and gives [ok, v, i]: whether it could
\* read a value there, the value, and the position after it.
Whitespace == { " " }
Fail(i) == [ ok |-> FALSE, v |-> JNull, i |-> i ]
Got(v, i) == [ ok |-> TRUE, v |-> v, i |-> i ]
JError == [ t |-> "JSONDecodeError" ]

RECURSIVE SkipWs(_, _)
SkipWs(s, i) ==
    IF i <= Len(s) /\ s[i] \in Whitespace THEN SkipWs(s, i + 1) ELSE i

At(s, i, c) == i <= Len(s) /\ s[i] = c

HasWord(s, i, w) ==
    /\ i + Len(w) - 1 <= Len(s)
    /\ \A k \in 1 .. Len(w) : s[i + k - 1] = w[k]

IsDigit(c) == Ord(c) >= Ord("0") /\ Ord(c) <= Ord("9")
DigitValue(c) == Ord(c) - Ord("0")

RECURSIVE ParseDigits(_, _, _)
ParseDigits(s, i, acc) ==
    IF i <= Len(s) /\ IsDigit(s[i])
    THEN ParseDigits(s, i + 1, acc * 10 + DigitValue(s[i]))
    ELSE Got(JInt(acc), i)

ParseInt(s, i) ==
    IF At(s, i, "-")
    THEN IF i + 1 <= Len(s) /\ IsDigit(s[i + 1])
         THEN LET r == ParseDigits(s, i + 1, 0) IN Got(JInt(0 - r.v.n), r.i)
         ELSE Fail(i)
    ELSE IF i <= Len(s) /\ IsDigit(s[i]) THEN ParseDigits(s, i, 0)
    ELSE Fail(i)

\* The characters of a string literal whose opening quote is before i.
RECURSIVE ParseChars(_, _, _)
ParseChars(s, i, acc) ==
    IF i > Len(s) THEN Fail(i)
    ELSE IF s[i] = "\"" THEN Got(JStr(acc), i + 1)
    ELSE IF s[i] = "\\"
         THEN IF i + 1 <= Len(s) /\ s[i + 1] \in { "\"", "\\" }
              THEN ParseChars(s, i + 2, Append(acc, s[i + 1]))
              ELSE Fail(i)
    ELSE ParseChars(s, i + 1, Append(acc, s[i]))

ParseString(s, i) ==
    IF At(s, i, "\"") THEN ParseChars(s, i + 1, << >>) ELSE Fail(i)

\* The items of a dict with the value of key k set: a repeated key keeps its
\* place and takes the later value.
SetItem(items, k, v) ==
    IF \E n \in 1 .. Len(items) : items[n].k = k
    THEN [ n \in 1 .. Len(items) |->
             IF items[n].k = k THEN Item(k, v) ELSE items[n] ]
    ELSE Append(items, Item(k, v))

RECURSIVE ParseValue(_, _)
RECURSIVE ParseElems(_, _, _)
RECURSIVE ParseItems(_, _, _)
ParseValue(s, i) ==
    IF i > Len(s) THEN Fail(i)
    ELSE IF HasWord(s, i, << "n", "u", "l", "l" >>) THEN Got(JNull, i + 4)
    ELSE IF HasWord(s, i, << "t", "r", "u", "e" >>) THEN Got(JBool(TRUE), i + 4)
    ELSE IF HasWord(s, i, << "f", "a", "l", "s", "e" >>)
         THEN Got(JBool(FALSE), i + 5)
    ELSE IF s[i] = "\"" THEN ParseString(s, i)
    ELSE IF s[i] = "[" THEN
        LET j == SkipWs(s, i + 1) IN
        IF At(s, j, "]") THEN Got(JList(<< >>), j + 1)
        ELSE ParseElems(s, j, << >>)
    ELSE IF s[i] = "{" THEN
        LET j == SkipWs(s, i + 1) IN
        IF At(s, j, "}") THEN Got(JDict(<< >>), j + 1)
        ELSE ParseItems(s, j, << >>)
    ELSE ParseInt(s, i)

\* The elements of a list from position i (at a value) to its "]".
ParseElems(s, i, acc) ==
    LET r == ParseValue(s, i) IN
    IF ~r.ok THEN r
    ELSE LET j == SkipWs(s, r.i) IN
         IF At(s, j, "]") THEN Got(JList(Append(acc, r.v)), j + 1)
         ELSE IF At(s, j, ",")
              THEN ParseElems(s, SkipWs(s, j + 1), Append(acc, r.v))
         ELSE Fail(j)

\* The items of a dict from position i (at a key) to its "}".
ParseItems(s, i, acc) ==
    LET k == ParseString(s, i) IN
    IF ~k.ok THEN k
    ELSE LET c == SkipWs(s, k.i) IN
         IF ~At(s, c, ":") THEN Fail(c)
         ELSE LET r == ParseValue(s, SkipWs(s, c + 1)) IN
              IF ~r.ok THEN r
              ELSE LET j == SkipWs(s, r.i)
                       items == SetItem(acc, k.v.s, r.v)
                   IN  IF At(s, j, "}") THEN Got(JDict(items), j + 1)
                       ELSE IF At(s, j, ",")
                            THEN ParseItems(s, SkipWs(s, j + 1), items)
                       ELSE Fail(j)

\* json.loads: one value, with nothing but whitespace around it.
json_loads(chars) ==
    LET r == ParseValue(chars, SkipWs(chars, 1)) IN
    IF r.ok /\ SkipWs(chars, r.i) = Len(chars) + 1 THEN r.v ELSE JError

\* The base64 alphabet, value 0 first.
B64Alphabet ==
    << "A", "B", "C", "D", "E", "F", "G", "H", "I", "J", "K", "L", "M", "N",
       "O", "P", "Q", "R", "S", "T", "U", "V", "W", "X", "Y", "Z", "a", "b",
       "c", "d", "e", "f", "g", "h", "i", "j", "k", "l", "m", "n", "o", "p",
       "q", "r", "s", "t", "u", "v", "w", "x", "y", "z", "0", "1", "2", "3",
       "4", "5", "6", "7", "8", "9", "+", "/" >>

\* The byte of a 6-bit value and the 6-bit value of a byte of the alphabet.
B64ByteTable == [ v \in 0 .. 63 |-> Ord(B64Alphabet[v + 1]) ]
B64Bytes == { B64ByteTable[v] : v \in 0 .. 63 }
B64ValueTable ==
    [ b \in B64Bytes |-> CHOOSE v \in 0 .. 63 : B64ByteTable[v] = b ]
B64Byte(sextet) == B64ByteTable[sextet]
B64Value(byte) == B64ValueTable[byte]
IsB64Byte(byte) == byte \in B64Bytes
PadByte == Ord("=")

\* base64.b64encode: three bytes become four characters; a last group of one
\* or two bytes is padded with "=".
RECURSIVE b64encode(_)
b64encode(bytes) ==
    IF bytes = << >> THEN << >>
    ELSE IF Len(bytes) = 1 THEN
        << B64Byte(bytes[1] \div 4), B64Byte((bytes[1] % 4) * 16),
           PadByte, PadByte >>
    ELSE IF Len(bytes) = 2 THEN
        << B64Byte(bytes[1] \div 4),
           B64Byte((bytes[1] % 4) * 16 + bytes[2] \div 16),
           B64Byte((bytes[2] % 16) * 4), PadByte >>
    ELSE
        << B64Byte(bytes[1] \div 4),
           B64Byte((bytes[1] % 4) * 16 + bytes[2] \div 16),
           B64Byte((bytes[2] % 16) * 4 + bytes[3] \div 64),
           B64Byte(bytes[3] % 64) >>
        \o b64encode(SubSeq(bytes, 4, Len(bytes)))

\* Whether base64.b64decode accepts the bytes: groups of four characters of
\* the alphabet, padding only at the end.
RECURSIVE IsB64(_)
IsB64(b) ==
    IF b = << >> THEN TRUE
    ELSE IF Len(b) < 4 THEN FALSE
    ELSE IF Len(b) = 4 THEN
        /\ IsB64Byte(b[1]) /\ IsB64Byte(b[2])
        /\ \/ IsB64Byte(b[3]) /\ IsB64Byte(b[4])
           \/ IsB64Byte(b[3]) /\ b[4] = PadByte
           \/ b[3] = PadByte /\ b[4] = PadByte
    ELSE /\ \A i \in 1 .. 4 : IsB64Byte(b[i])
         /\ IsB64(SubSeq(b, 5, Len(b)))

\* base64.b64decode of bytes it accepts.
RECURSIVE b64decode(_)
b64decode(b) ==
    IF b = << >> THEN << >>
    ELSE
        LET v1 == B64Value(b[1])
            v2 == B64Value(b[2])
            byte1 == v1 * 4 + v2 \div 16
        IN  IF b[3] = PadByte THEN << byte1 >>
            ELSE LET v3 == B64Value(b[3])
                     byte2 == (v2 % 16) * 16 + v3 \div 4
                 IN  IF b[4] = PadByte THEN << byte1, byte2 >>
                     ELSE << byte1, byte2, (v3 % 4) * 64 + B64Value(b[4]) >>
                          \o b64decode(SubSeq(b, 5, Len(b)))

(***************************************************************************)
(* zen_stores/schemas/trigger_schemas.py                                   *)
(***************************************************************************)

\* A field of an update model: not set, set to None, or set to a value.
\* dict(exclude_unset=True, exclude_none=True) keeps only the last kind.
Unset == [ given |-> "unset" ]
GivenNone == [ given |-> "none" ]
Given(v) == [ given |-> "value", v |-> v ]

\* An absent (None) section of a response model.
Absent == [ absent |-> TRUE ]

\* The bytes of a column that holds None or b"": both are falsy.
NoBytes == << >>

\* A mutant of the encoding: the encoded bytes are encoded once more.
encode_document_twice(d) == b64encode(b64encode(encode_utf8(json_dumps(d))))

\* base64.b64encode(json.dumps(document).encode("utf-8"))
encode_document(d) == b64encode(encode_utf8(json_dumps(d)))

\* json.loads(base64.b64decode(column).decode())
decode_document(bytes) == json_loads(decode_utf8(b64decode(bytes)))

\* The fields that survive dict(exclude_unset=True, exclude_none=True).
Supplied(trigger_update) ==
    { f \in DOMAIN trigger_update : trigger_update[f].given = "value" }

\* A mutant of the trigger table's foreign keys: event_source_id is cleared
\* when its event source is deleted.
TriggerForeignKeysSetNull ==
    { [ column |-> "workspace_id", target |-> "workspace",
        ondelete |-> "CASCADE", nullable |-> FALSE ],
      [ column |-> "user_id", target |-> "user",
        ondelete |-> "SET NULL", nullable |-> TRUE ],
      [ column |-> "event_source_id", target |-> "event_source",
        ondelete |-> "SET NULL", nullable |-> TRUE ] }

\* A mutant of the execution table's foreign key: trigger_id is cleared when
\* its trigger is deleted.
ExecutionForeignKeysSetNull ==
    { [ column |-> "trigger_id", target |-> "trigger",
        ondelete |-> "SET NULL", nullable |-> TRUE ] }

\* The foreign keys of the trigger table and of the trigger_execution table.
\* The trigger table has no foreign key to an action: it holds the action's
\* flavor, subtype and configuration in its own columns.
TriggerForeignKeys ==
    { [ column |-> "workspace_id", target |-> "workspace",
        ondelete |-> "CASCADE", nullable |-> FALSE ],
      [ column |-> "user_id", target |-> "user",
        ondelete |-> "SET NULL", nullable |-> TRUE ],
      [ column |-> "event_source_id", target |-> "event_source",
        ondelete |-> "CASCADE", nullable |-> FALSE ] }

ExecutionForeignKeys ==
    { [ column |-> "trigger_id", target |-> "trigger",
        ondelete |-> "CASCADE", nullable |-> FALSE ] }

\* A mutant of from_request: is_active is taken from the request, here from
\* whether it carries a description.
TriggerFromRequestAsAsked(request, id, t) ==
    [ id |-> id,
      name |-> request.name,
      workspace_id |-> request.workspace,
      user_id |-> request.user,
      action |-> encode_document(request.action),
      action_flavor |-> request.action_flavor,
      action_subtype |-> request.action_subtype,
      event_source_id |-> request.event_source_id,
      event_filter |-> encode_document(request.event_filter),
      description |-> request.description,
      is_active |-> request.description # None,
      created |-> t,
      updated |-> t ]

\* TriggerSchema.from_request, with the id and the created/updated times that
\* the base schema's defaults give the new row.
TriggerFromRequest(request, id, t) ==
    [ id |-> id,
      name |-> request.name,
      workspace_id |-> request.workspace,
      user_id |-> request.user,
      action |-> encode_document(request.action),
      action_flavor |-> request.action_flavor,
      action_subtype |-> request.action_subtype,
      event_source_id |-> request.event_source_id,
      event_filter |-> encode_document(request.event_filter),
      description |-> request.description,
      is_active |-> TRUE,
      created |-> t,
      updated |-> t ]

\* The items of a dict overlaid with the items of another.
RECURSIVE MergedItems(_, _)
MergedItems(items, more) ==
    IF more = << >> THEN items
    ELSE MergedItems(SetItem(items, Head(more).k, Head(more).v), Tail(more))

\* A mutant of update: a field set to None is assigned too.
TriggerUpdatedWithNone(self, trigger_update, t) ==
    [ f \in DOMAIN self |->
        IF f = "updated" THEN t
        ELSE IF f \in DOMAIN trigger_update /\ trigger_update[f] # Unset
             THEN IF trigger_update[f] = GivenNone
                  THEN IF f \in { "event_filter", "action" }
                       THEN encode_document(JNull) ELSE None
                  ELSE IF f \in { "event_filter", "action" }
                       THEN encode_document(trigger_update[f].v)
                       ELSE trigger_update[f].v
             ELSE self[f] ]

\* A mutant of update: a new document is merged into the stored one.
TriggerUpdatedMerging(self, trigger_update, t) ==
    [ f \in DOMAIN self |->
        IF f = "updated" THEN t
        ELSE IF f \in Supplied(trigger_update)
             THEN IF f \in { "event_filter", "action" }
                  THEN encode_document(JDict(MergedItems(
                           decode_document(self[f]).items,
                           trigger_update[f].v.items)))
                  ELSE trigger_update[f].v
             ELSE self[f] ]

\* TriggerSchema.update at time t.
TriggerUpdated(self, trigger_update, t) ==
    [ f \in DOMAIN self |->
        IF f = "updated" THEN t
        ELSE IF f \in Supplied(trigger_update)
             THEN IF f = "event_filter"
                  THEN encode_document(trigger_update.event_filter.v)
                  ELSE IF f = "action"
                       THEN encode_document(trigger_update.action.v)
                       ELSE trigger_update[f].v
             ELSE self[f] ]

\* A mutant of to_model: the action configuration is read from the stored
\* action of the trigger's flavor and subtype when there is one.
TriggerToModelLiveAction(self, include_metadata, include_resources) ==
    IF self.event_source_id \notin DOMAIN event_sources
    THEN [ error |-> "AttributeError" ]
    ELSE
    [ id |-> self.id,
      name |-> self.name,
      body |-> [ user |-> self.user_id,
                 created |-> self.created,
                 updated |-> self.updated,
                 action_flavor |-> self.action_flavor,
                 action_subtype |-> self.action_subtype,
                 event_source_flavor |->
                     event_sources[self.event_source_id].flavor,
                 is_active |-> self.is_active ],
      metadata |->
          IF include_metadata
          THEN [ workspace |-> self.workspace_id,
                 event_filter |-> decode_document(self.event_filter),
                 action |->
                     LET live == { a \in DOMAIN actions :
                                     /\ actions[a].flavor = self.action_flavor
                                     /\ actions[a].plugin_subtype
                                           = self.action_subtype }
                     IN  IF live = {} THEN decode_document(self.action)
                         ELSE actions[CHOOSE a \in live : TRUE].configuration,
                 description |-> self.description,
                 event_source |-> self.event_source_id ]
          ELSE Absent,
      resources |->
          IF include_resources
          THEN [ event_source |-> self.event_source_id ]
          ELSE Absent ]

\* TriggerSchema.to_model. self.user, self.workspace and self.event_source
\* are the rows that the row's foreign keys name; a row whose event source
\* is gone has no event_source to read the flavor from.
TriggerToModel(self, include_metadata, include_resources) ==
    IF self.event_source_id \notin DOMAIN event_sources
    THEN [ error |-> "AttributeError" ]
    ELSE
    [ id |-> self.id,
      name |-> self.name,
      body |-> [ user |-> self.user_id,
                 created |-> self.created,
                 updated |-> self.updated,
                 action_flavor |-> self.action_flavor,
                 action_subtype |-> self.action_subtype,
                 event_source_flavor |->
                     event_sources[self.event_source_id].flavor,
                 is_active |-> self.is_active ],
      metadata |->
          IF include_metadata
          THEN [ workspace |-> self.workspace_id,
                 event_filter |-> decode_document(self.event_filter),
                 action |-> decode_document(self.action),
                 description |-> self.description,
                 event_source |-> self.event_source_id ]
          ELSE Absent,
      resources |->
          IF include_resources
          THEN [ event_source |-> self.event_source_id ]
          ELSE Absent ]

\* TriggerExecutionSchema.from_request
ExecutionFromRequest(request, id, t) ==
    [ id |-> id,
      trigger_id |-> request.trigger,
      event_metadata |-> encode_document(request.event_metadata),
      created |-> t,
      updated |-> t ]

\* A mutant of the execution's to_model: the metadata is always filled.
ExecutionToModelHydrated(self, include_metadata, include_resources) ==
    IF self.trigger_id \notin DOMAIN triggers
    THEN [ error |-> "AttributeError" ]
    ELSE
    [ id |-> self.id,
      body |-> [ trigger |-> TriggerToModel(triggers[self.trigger_id],
                                            FALSE, FALSE),
                 created |-> self.created,
                 updated |-> self.updated ],
      metadata |->
          [ event_metadata |->
              IF self.event_metadata # NoBytes
              THEN decode_document(self.event_metadata)
              ELSE JDict(<< >>) ] ]

\* TriggerExecutionSchema.to_model
ExecutionToModel(self, include_metadata, include_resources) ==
    IF self.trigger_id \notin DOMAIN triggers
    THEN [ error |-> "AttributeError" ]
    ELSE
    [ id |-> self.id,
      body |-> [ trigger |-> TriggerToModel(triggers[self.trigger_id],
                                            FALSE, FALSE),
                 created |-> self.created,
                 updated |-> self.updated ],
      metadata |->
          IF include_metadata
          THEN [ event_metadata |->
                   IF self.event_metadata # NoBytes
                   THEN decode_document(self.event_metadata)
                   ELSE JDict(<< >>) ]
          ELSE Absent ]

(***************************************************************************)
(* The store's tables and the effect of the declared foreign keys          *)
(***************************************************************************)

\* The rows of a table without the rows of the keys in gone.
Without(rows, gone) == [ id \in (DOMAIN rows) \ gone |-> rows[id] ]

\* The rows of a table with one more row.
WithRow(rows, id, row) ==
    [ i \in (DOMAIN rows) \cup { id } |-> IF i = id THEN row ELSE rows[i] ]

\* The keys of the rows that ON DELETE CASCADE removes when the rows gone
\* leave the table target.
Cascaded(rows, fks, target, gone) ==
    { id \in DOMAIN rows :
        \E fk \in fks : /\ fk.target = target
                        /\ fk.ondelete = "CASCADE"
                        /\ rows[id][fk.column] \in gone }

\* A row after ON DELETE SET NULL has cleared its references to the rows gone.
Nulled(row, fks, target, gone) ==
    [ f \in DOMAIN row |->
        IF \E fk \in fks : /\ fk.column = f
                           /\ fk.target = target
                           /\ fk.ondelete = "SET NULL"
                           /\ row[f] \in gone
        THEN None
        ELSE row[f] ]

\* A table after the rows gone have left the table target.
AfterDelete(rows, fks, target, gone) ==
    LET kept == (DOMAIN rows) \ Cascaded(rows, fks, target, gone) IN
    [ id \in kept |-> Nulled(rows[id], fks, target, gone) ]

\* The trigger table and the trigger_execution table after rows have left
\* another table: the triggers that go take their executions with them.
TriggersAfterDelete(target, gone) ==
    AfterDelete(triggers, TriggerForeignKeys, target, gone)

ExecutionsAfterDelete(target, gone) ==
    LET goneTriggers ==
            IF target = "trigger" THEN gone
            ELSE Cascaded(triggers, TriggerForeignKeys, target, gone)
    IN  AfterDelete(executions, ExecutionForeignKeys, "trigger", goneTriggers)

\* Whether the references of a new row name existing rows (a NOT NULL column
\* must name one; a nullable one may hold None).
ReferencesHold(row, fks) ==
    \A fk \in fks :
        LET table == CASE fk.target = "workspace" -> workspaces
                       [] fk.target = "user" -> users
                       [] fk.target = "event_source" -> DOMAIN event_sources
                       [] fk.target = "trigger" -> DOMAIN triggers
        IN  \/ row[fk.column] \in table
            \/ fk.nullable /\ row[fk.column] = None

Op(op, id, arg, result) ==
    [ op |-> op, id |-> id, arg |-> arg, result |-> result ]

\* datetime.utcnow() moves on.
MaxClock == 1

Tick ==
    /\ now < MaxClock
    /\ now' = now + 1
    /\ lastOp' = Op("tick", None, None, "ok")
    /\ UNCHANGED <<dispatchVars, rbacVars, httpVars, tableVars, document>>

\* create_event_source, as the schedule plugin's _create_event_source calls it
CreateEventSource(id, flavor) ==
    /\ id \notin DOMAIN event_sources
    /\ event_sources' = WithRow(event_sources, id, [ flavor |-> flavor ])
    /\ lastOp' = Op("create_event_source", id, flavor, "ok")
    /\ UNCHANGED <<dispatchVars, rbacVars, httpVars, workspaces, users, triggers, executions,
                   actions, now, document>>

\* Deleting rows of the table target: the foreign keys decide what happens
\* to the triggers and the executions.
DeleteRows(target, gone) ==
    /\ triggers' = TriggersAfterDelete(target, gone)
    /\ executions' = ExecutionsAfterDelete(target, gone)

\* What a deletion took with it.
Removed ==
    [ triggers |-> (DOMAIN triggers) \ (DOMAIN triggers'),
      executions |-> (DOMAIN executions) \ (DOMAIN executions') ]

DeleteEventSource(id) ==
    /\ id \in DOMAIN event_sources
    /\ event_sources' = Without(event_sources, { id })
    /\ DeleteRows("event_source", { id })
    /\ lastOp' = Op("delete_event_source", id, Removed, "ok")
    /\ UNCHANGED <<dispatchVars, rbacVars, httpVars, workspaces, users, actions, now, document>>

CreateUser(id) ==
    /\ id \notin users
    /\ users' = users \cup { id }
    /\ lastOp' = Op("create_user", id, None, "ok")
    /\ UNCHANGED <<dispatchVars, rbacVars, httpVars, workspaces, event_sources, triggers,
                   executions, actions, now, document>>

DeleteUser(id) ==
    /\ id \in users
    /\ users' = users \ { id }
    /\ DeleteRows("user", { id })
    /\ lastOp' = Op("delete_user", id, Removed, "ok")
    /\ UNCHANGED <<dispatchVars, rbacVars, httpVars, workspaces, event_sources, actions, now,
                   document>>

CreateWorkspace(key) ==
    /\ key \notin workspaces
    /\ workspaces' = workspaces \cup { key }
    /\ lastOp' = Op("create_workspace", key, None, "ok")
    /\ UNCHANGED <<dispatchVars, rbacVars, httpVars, users, event_sources, triggers,
                   executions, actions, now, document>>

DeleteWorkspace(key) ==
    /\ key \in workspaces
    /\ workspaces' = workspaces \ { key }
    /\ DeleteRows("workspace", { key })
    /\ lastOp' = Op("delete_workspace", key, Removed, "ok")
    /\ UNCHANGED <<dispatchVars, rbacVars, httpVars, users, event_sources, actions, now,
                   document>>

\* create_trigger: the row TriggerSchema.from_request builds is inserted; the
\* insert fails when a foreign key names no row.
CreateTrigger(id, request) ==
    LET row == TriggerFromRequest(request, id, now) IN
    /\ id \notin DOMAIN triggers
    /\ IF ReferencesHold(row, TriggerForeignKeys)
       THEN /\ triggers' = WithRow(triggers, id, row)
            /\ lastOp' = Op("create_trigger", id, request, "ok")
       ELSE /\ triggers' = triggers
            /\ lastOp' = Op("create_trigger", id, request, "IntegrityError")
    /\ UNCHANGED <<dispatchVars, rbacVars, httpVars, workspaces, users, event_sources,
                   executions, actions, now, document>>

\* update_trigger: TriggerSchema.update on the stored row
UpdateTrigger(id, trigger_update) ==
    /\ id \in DOMAIN triggers
    /\ triggers' = [triggers EXCEPT
                      ![id] = TriggerUpdated(triggers[id], trigger_update, now)]
    /\ lastOp' = Op("update_trigger", id, trigger_update,
                    [ event_filter |-> triggers[id].event_filter,
                      action |-> triggers[id].action ])
    /\ UNCHANGED <<dispatchVars, rbacVars, httpVars, workspaces, users, event_sources,
                   executions, actions, now, document>>

DeleteTrigger(id) ==
    /\ id \in DOMAIN triggers
    /\ triggers' = Without(triggers, { id })
    /\ executions' = ExecutionsAfterDelete("trigger", { id })
    /\ lastOp' = Op("delete_trigger", id, Removed, "ok")
    /\ UNCHANGED <<dispatchVars, rbacVars, httpVars, workspaces, users, event_sources,
                   actions, now, document>>

\* get_trigger: TriggerSchema.to_model on the stored row
ReadTrigger(id, include_metadata, include_resources) ==
    /\ id \in DOMAIN triggers
    /\ lastOp' = Op("get_trigger", id,
                    [ include_metadata |-> include_metadata,
                      include_resources |-> include_resources ],
                    TriggerToModel(triggers[id], include_metadata,
                                   include_resources))
    /\ UNCHANGED <<dispatchVars, rbacVars, httpVars, tableVars, now, document>>

\* create_trigger_execution: the row TriggerExecutionSchema.from_request
\* builds is inserted; the insert fails when trigger_id names no trigger.
CreateExecution(id, request) ==
    LET row == ExecutionFromRequest(request, id, now) IN
    /\ id \notin DOMAIN executions
    /\ IF ReferencesHold(row, ExecutionForeignKeys)
       THEN /\ executions' = WithRow(executions, id, row)
            /\ lastOp' = Op("create_trigger_execution", id, request, "ok")
       ELSE /\ executions' = executions
            /\ lastOp' = Op("create_trigger_execution", id, request,
                            "IntegrityError")
    /\ UNCHANGED <<dispatchVars, rbacVars, httpVars, workspaces, users, event_sources,
                   triggers, actions, now, document>>

\* get_trigger_execution: TriggerExecutionSchema.to_model on the stored row
ReadExecution(id, include_metadata, include_resources) ==
    /\ id \in DOMAIN executions
    /\ lastOp' = Op("get_trigger_execution", id,
                    [ include_metadata |-> include_metadata,
                      include_resources |-> include_resources ],
                    ExecutionToModel(executions[id], include_metadata,
                                     include_resources))
    /\ UNCHANGED <<dispatchVars, rbacVars, httpVars, tableVars, now, document>>

(***************************************************************************)
(* models/v2/core/action.py                                                *)
(***************************************************************************)

\* An action is stored from an ActionRequest.
CreateAction(id, request) ==
    /\ id \notin DOMAIN actions
    /\ actions' = WithRow(actions, id,
                          [ name |-> request.name,
                            description |-> request.description,
                            flavor |-> request.flavor,
                            plugin_subtype |-> request.plugin_subtype,
                            configuration |-> request.configuration ])
    /\ lastOp' = Op("create_action", id, request, "ok")
    /\ UNCHANGED <<dispatchVars, rbacVars, httpVars, workspaces, users, event_sources,
                   triggers, executions, now, document>>

\* An ActionUpdate is applied to a stored action: name, description and
\* configuration are replaced when given.
UpdateAction(id, action_update) ==
    /\ id \in DOMAIN actions
    /\ actions' = [actions EXCEPT ![id] =
          [ f \in DOMAIN actions[id] |->
              IF f \in Supplied(action_update)
              THEN action_update[f].v ELSE actions[id][f] ]]
    /\ lastOp' = Op("update_action", id, action_update, "ok")
    /\ UNCHANGED <<dispatchVars, rbacVars, httpVars, workspaces, users, event_sources,
                   triggers, executions, now, document>>

\* A stored action is deleted: no table declares a foreign key to it.
DeleteAction(id) ==
    /\ id \in DOMAIN actions
    /\ actions' = Without(actions, { id })
    /\ DeleteRows("action", { id })
    /\ lastOp' = Op("delete_action", id, Removed, "ok")
    /\ UNCHANGED <<dispatchVars, rbacVars, httpVars, workspaces, users, event_sources, now,
                   document>>

(***************************************************************************)
(* The state after construction of each component                          *)
(***************************************************************************)

RbacIdle ==
    /\ resources = {}
    /\ rbacOp = [ op |-> "none", arg |-> [ type |-> "action", id |-> None,
                                          workspace_id |-> None ],
                  outcome |-> "ok" ]

NoRequest ==
    [ endpoint |-> "none", key |-> None, hydrate |-> "unset",
      credentials |-> "none", pc |-> "idle" ]

HttpIdle ==
    /\ httpRequest = NoRequest
    /\ calls = << >>
    /\ response = [ status |-> 0, hydrated |-> "unset" ]

\* A dispatcher that has received no event.
DispatchIdle ==
    /\ dispatches = << >>
    /\ executor_calls = {}

\* A store that holds the default workspace and the default user.
StoreIdle ==
    /\ workspaces = { "default" }
    /\ users = { "u1" }
    /\ event_sources = << >>
    /\ triggers = << >>
    /\ executions = << >>
    /\ actions = << >>
    /\ now = 0
    /\ lastOp = Op("none", None, None, "ok")
    /\ document = JNull

InitHttp ==
    /\ RbacIdle
    /\ HttpIdle
    /\ DispatchIdle
    /\ StoreIdle

InitRbac ==
    /\ RbacIdle
    /\ HttpIdle
    /\ DispatchIdle
    /\ StoreIdle

(***************************************************************************)
(* zen_server/routers/workspaces_endpoints.py                              *)
(***************************************************************************)

WorkspaceKeys == { "default", "ws1" }

Endpoints ==
    { "list_workspaces", "create_workspace", "get_workspace",
      "update_workspace", "delete_workspace", "get_workspace_statistics" }

\* One call made while serving a request.
Call(fn, arg, hydrate) == [ fn |-> fn, arg |-> arg, hydrate |-> hydrate ]

IsStoreCall(c) ==
    c.fn \in { "zen_store.list_workspaces", "zen_store.create_workspace",
               "zen_store.get_workspace", "zen_store.update_workspace",
               "zen_store.delete_workspace", "zen_store.count_stacks",
               "zen_store.count_stack_components", "zen_store.count_pipelines",
               "zen_store.count_runs" }

\* The helpers of zen_server.rbac.utils that verify an {Action, Resource}
\* permission and raise when it is missing.
IsPermissionCheck(c) ==
    c.fn \in { "verify_permission", "verify_permission_for_model",
               "batch_verify_permissions_for_models" }

\* The store raises KeyError for a workspace it does not hold.
StoreHas(key) == key \in workspaces

\* The default of the endpoint's hydrate query parameter.
HydrateDefault(endpoint) ==
    CASE endpoint = "list_workspaces" -> "false"
      [] endpoint = "get_workspace" -> "true"
      [] OTHER -> "unset"

\* A request arrives at one of the router's endpoints.
ReceiveRequest(endpoint, key, hydrate, credentials) ==
    /\ httpRequest.pc \in { "idle", "done" }
    /\ httpRequest' = [ endpoint |-> endpoint, key |-> key,
                    hydrate |-> IF hydrate = "unset"
                                THEN HydrateDefault(endpoint) ELSE hydrate,
                    credentials |-> credentials, pc |-> "auth" ]
    /\ calls' = << >>
    /\ response' = [ status |-> 0, hydrated |-> "unset" ]
    /\ UNCHANGED <<dispatchVars, rbacVars, tableVars, storeVars>>

\* Security(authorize): the dependency yields an AuthContext for valid
\* credentials and raises otherwise.
AuthPasses(req) == req.credentials = "valid"

\* The dependency "_: AuthContext = Security(authorize)" is resolved before
\* the endpoint function is called; when it raises, the answer is 401.
Authorize ==
    /\ httpRequest.pc = "auth"
    /\ calls' = Append(calls,
         Call("authorize", httpRequest.credentials, "unset"))
    /\ IF AuthPasses(httpRequest)
       THEN /\ httpRequest' = [httpRequest EXCEPT !.pc = "endpoint"]
            /\ response' = response
       ELSE /\ httpRequest' = [httpRequest EXCEPT !.pc = "done"]
            /\ response' = [ status |-> 401, hydrated |-> "unset" ]
    /\ UNCHANGED <<dispatchVars, rbacVars, tableVars, storeVars>>

Serving(endpoint) ==
    httpRequest.pc = "endpoint" /\ httpRequest.endpoint = endpoint

Finish(status, hydrated) ==
    /\ httpRequest' = [httpRequest EXCEPT !.pc = "done"]
    /\ response' = [ status |-> status, hydrated |-> hydrated ]

list_workspaces ==
    /\ Serving("list_workspaces")
    /\ calls' = calls \o
         << Call("zen_store.list_workspaces", "filter", httpRequest.hydrate),
            Call("dehydrate_page", "page", "unset") >>
    /\ Finish(200, httpRequest.hydrate)
    /\ UNCHANGED <<dispatchVars, rbacVars, tableVars, storeVars>>

create_workspace ==
    /\ Serving("create_workspace")
    /\ IF StoreHas(httpRequest.key)
       THEN \* EntityExistsError, turned into 409 by handle_exceptions
            /\ calls' = Append(calls,
                 Call("zen_store.create_workspace", httpRequest.key, "unset"))
            /\ workspaces' = workspaces
            /\ Finish(409, "unset")
       ELSE /\ calls' = calls \o
                 << Call("zen_store.create_workspace", httpRequest.key,
                         "unset"),
                    Call("dehydrate_response_model", httpRequest.key, "unset") >>
            /\ workspaces' = workspaces \cup { httpRequest.key }
            /\ Finish(200, "true")
    /\ UNCHANGED <<dispatchVars, rbacVars, users, event_sources, triggers, executions,
                   actions, storeVars>>

get_workspace ==
    /\ Serving("get_workspace")
    /\ IF StoreHas(httpRequest.key)
       THEN /\ calls' = calls \o
                 << Call("zen_store.get_workspace", httpRequest.key,
                         httpRequest.hydrate),
                    Call("dehydrate_response_model", httpRequest.key, "unset") >>
            /\ Finish(200, httpRequest.hydrate)
       ELSE /\ calls' = Append(calls,
                 Call("zen_store.get_workspace", httpRequest.key,
                      httpRequest.hydrate))
            /\ Finish(404, "unset")
    /\ UNCHANGED <<dispatchVars, rbacVars, tableVars, storeVars>>

update_workspace ==
    /\ Serving("update_workspace")
    /\ IF StoreHas(httpRequest.key)
       THEN /\ calls' = calls \o
                 << Call("zen_store.get_workspace", httpRequest.key, "false"),
                    Call("zen_store.update_workspace", httpRequest.key,
                         "unset"),
                    Call("dehydrate_response_model", httpRequest.key, "unset") >>
            /\ Finish(200, "true")
       ELSE /\ calls' = Append(calls,
                 Call("zen_store.get_workspace", httpRequest.key, "false"))
            /\ Finish(404, "unset")
    /\ UNCHANGED <<dispatchVars, rbacVars, tableVars, storeVars>>

delete_workspace ==
    /\ Serving("delete_workspace")
    /\ calls' = Append(calls,
         Call("zen_store.delete_workspace", httpRequest.key, "unset"))
    /\ IF StoreHas(httpRequest.key)
       THEN /\ workspaces' = workspaces \ { httpRequest.key }
            /\ DeleteRows("workspace", { httpRequest.key })
            /\ Finish(200, "unset")
       ELSE /\ workspaces' = workspaces
            /\ UNCHANGED <<triggers, executions>>
            /\ Finish(404, "unset")
    /\ UNCHANGED <<dispatchVars, rbacVars, users, event_sources, actions, storeVars>>

\* A mutant of the statistics endpoint: the counts are taken without the
\* allowed-resource-id filters.
get_workspace_statistics_unfiltered ==
    /\ Serving("get_workspace_statistics")
    /\ IF StoreHas(httpRequest.key)
       THEN /\ calls' = calls \o
                 << Call("zen_store.get_workspace", httpRequest.key,
                         "default"),
                    Call("zen_store.count_stacks", "stack", "unset"),
                    Call("zen_store.count_stack_components", "stack_component",
                         "unset"),
                    Call("zen_store.count_pipelines", "pipeline", "unset"),
                    Call("zen_store.count_runs", "pipeline_run", "unset") >>
            /\ Finish(200, "unset")
       ELSE /\ calls' = Append(calls,
                 Call("zen_store.get_workspace", httpRequest.key, "default"))
            /\ Finish(404, "unset")
    /\ UNCHANGED <<dispatchVars, rbacVars, tableVars, storeVars>>

get_workspace_statistics ==
    /\ Serving("get_workspace_statistics")
    /\ IF StoreHas(httpRequest.key)
       THEN /\ calls' = calls \o
                 << Call("zen_store.get_workspace", httpRequest.key,
                         "default"),
                    Call("get_allowed_resource_ids", "stack_component", "unset"),
                    Call("get_allowed_resource_ids", "stack", "unset"),
                    Call("get_allowed_resource_ids", "pipeline_run", "unset"),
                    Call("get_allowed_resource_ids", "pipeline", "unset"),
                    Call("zen_store.count_stacks", "stack", "unset"),
                    Call("zen_store.count_stack_components", "stack_component",
                         "unset"),
                    Call("zen_store.count_pipelines", "pipeline", "unset"),
                    Call("zen_store.count_runs", "pipeline_run", "unset") >>
            /\ Finish(200, "unset")
       ELSE /\ calls' = Append(calls,
                 Call("zen_store.get_workspace", httpRequest.key, "default"))
            /\ Finish(404, "unset")
    /\ UNCHANGED <<dispatchVars, rbacVars, tableVars, storeVars>>

NextHttp ==
    \/ \E e \in Endpoints, k \in WorkspaceKeys,
          h \in { "unset", "true", "false" },
          c \in { "valid", "invalid" } : ReceiveRequest(e, k, h, c)
    \/ Authorize
    \/ list_workspaces
    \/ create_workspace
    \/ get_workspace
    \/ update_workspace
    \/ delete_workspace
    \/ get_workspace_statistics

SpecHttp == InitHttp /\ [][NextHttp]_vars

(***************************************************************************)
(* The store: event sources, triggers, executions, actions                 *)
(***************************************************************************)

EventSourceIds == { "es1", "es2" }
TriggerIds == { "t1", "t2" }
ExecutionIds == { "x1", "x2" }
UserIds == { "u1" }
ActionIds == { "a1" }

Key(c) == << c >>
DocEmpty == JDict(<< >>)
DocA == JDict(<< Item(Key("a"), JInt(1)) >>)
DocB == JDict(<< Item(Key("b"), JInt(2)) >>)

TriggerRequest(workspace, user, source, event_filter, action, name, text) ==
    [ name |-> name,
      workspace |-> workspace,
      user |-> user,
      action |-> action,
      action_flavor |-> "builtin",
      action_subtype |-> "PipelineRun",
      event_source_id |-> source,
      event_filter |-> event_filter,
      description |-> text ]

TriggerUpdate(name, description, event_filter, action, is_active) ==
    [ name |-> name, description |-> description,
      event_filter |-> event_filter, action |-> action,
      is_active |-> is_active ]

StoreTriggerRequests ==
    { TriggerRequest("default", u, es, DocA, DocA, "n1", "d1") :
        u \in UserIds, es \in EventSourceIds }

StoreTriggerUpdates ==
    { TriggerUpdate(Unset, Unset, Unset, Unset, Given(FALSE)),
      TriggerUpdate(Unset, Unset, Unset, Given(DocB), Unset) }

ExecutionRequest(trigger, event_metadata) ==
    [ trigger |-> trigger, event_metadata |-> event_metadata ]

ActionRequests ==
    { [ name |-> "act", description |-> "", flavor |-> "builtin",
        plugin_subtype |-> "PipelineRun", configuration |-> DocA ] }

ActionUpdates ==
    { [ name |-> Unset, description |-> Unset, configuration |-> c ] :
        c \in { GivenNone, Given(DocB) } }

Init ==
    /\ RbacIdle
    /\ HttpIdle
    /\ DispatchIdle
    /\ StoreIdle

Next ==
    \/ \E id \in EventSourceIds : CreateEventSource(id, "schedule")
    \/ \E id \in EventSourceIds : DeleteEventSource(id)
    \/ \E id \in UserIds : CreateUser(id)
    \/ \E id \in UserIds : DeleteUser(id)
    \/ CreateWorkspace("default")
    \/ DeleteWorkspace("default")
    \/ \E id \in TriggerIds, r \in StoreTriggerRequests : CreateTrigger(id, r)
    \/ \E id \in TriggerIds, u \in StoreTriggerUpdates : UpdateTrigger(id, u)
    \/ \E id \in TriggerIds : DeleteTrigger(id)
    \/ \E id \in ExecutionIds, t \in TriggerIds :
          CreateExecution(id, ExecutionRequest(t, DocA))
    \/ \E id \in ActionIds, r \in ActionRequests : CreateAction(id, r)
    \/ \E id \in ActionIds, u \in ActionUpdates : UpdateAction(id, u)
    \/ \E id \in ActionIds : DeleteAction(id)

Spec == Init /\ [][Next]_vars

(***************************************************************************)
(* One trigger row through from_request, update and to_model               *)
(***************************************************************************)

RowTriggerRequests ==
    { TriggerRequest("default", "u1", "es1", f, a, "n1", d) :
        f \in { DocEmpty, DocA }, a \in { DocA, DocB }, d \in { "d1", None } }

RowTriggerUpdates ==
    { TriggerUpdate(n, d, f, a, i) :
        n \in { Unset, Given("n2") },
        d \in { Unset, GivenNone, Given("d2") },
        f \in { Unset, GivenNone, Given(DocB) },
        a \in { Unset, Given(DocB) },
        i \in { Unset, Given(FALSE), Given(TRUE) } }

\* A store that holds the event source the trigger is bound to.
InitTrigger ==
    /\ RbacIdle
    /\ HttpIdle
    /\ DispatchIdle
    /\ workspaces = { "default" }
    /\ users = { "u1" }
    /\ event_sources = [ id \in { "es1" } |-> [ flavor |-> "schedule" ] ]
    /\ triggers = << >>
    /\ executions = << >>
    /\ actions = << >>
    /\ now = 0
    /\ lastOp = Op("none", None, None, "ok")
    /\ document = JNull

NextTrigger ==
    \/ \E r \in RowTriggerRequests : CreateTrigger("t1", r)
    \/ \E u \in RowTriggerUpdates : UpdateTrigger("t1", u)
    \/ DeleteTrigger("t1")
    \/ \E m \in BOOLEAN, r \in BOOLEAN : ReadTrigger("t1", m, r)
    \/ Tick

SpecTrigger == InitTrigger /\ [][NextTrigger]_vars

(***************************************************************************)
(* One document through the three persisted columns                        *)
(***************************************************************************)

\* The bound on the number of items of a document.
MaxDocLen == 1

CodecKeys == { Key("a"), << "b", "\"" >> }

CodecValues ==
    { JNull,
      JInt(-7),
      JStr(<< "x", "\"", "\\" >>),
      JList(<< JBool(TRUE), JInt(10), JStr(<< >>) >>),
      JDict(<< Item(Key("k"), JList(<< >>)), Item(Key("n"), JBool(FALSE)) >>) }

\* The dicts of at most MaxDocLen items with distinct keys, in each order.
CodecDocuments ==
    { JDict(items) :
        items \in { q \in UNION { [ 1 .. n -> [ k : CodecKeys, v : CodecValues ] ] :
                                   n \in 0 .. MaxDocLen } :
                      \A i, j \in 1 .. Len(q) : i # j => q[i].k # q[j].k } }

InitCodec ==
    /\ RbacIdle
    /\ HttpIdle
    /\ DispatchIdle
    /\ workspaces = { "default" }
    /\ users = { "u1" }
    /\ event_sources = [ id \in { "es1" } |-> [ flavor |-> "schedule" ] ]
    /\ triggers = << >>
    /\ executions = << >>
    /\ actions = << >>
    /\ now = 0
    /\ lastOp = Op("none", None, None, "ok")
    /\ document \in CodecDocuments

NextCodec ==
    \/ CreateTrigger("t1", TriggerRequest("default", "u1", "es1", document,
                                          DocA, "n1", "d1"))
    \/ CreateTrigger("t1", TriggerRequest("default", "u1", "es1", DocA,
                                          document, "n1", "d1"))
    \/ UpdateTrigger("t1", TriggerUpdate(Unset, Unset, Given(document), Unset,
                                         Unset))
    \/ UpdateTrigger("t1", TriggerUpdate(Unset, Unset, Unset, Given(document),
                                         Unset))
    \/ ReadTrigger("t1", TRUE, TRUE)
    \/ DeleteTrigger("t1")
    \/ CreateExecution("x1", ExecutionRequest("t1", document))
    \/ ReadExecution("x1", TRUE, FALSE)

SpecCodec == InitCodec /\ [][NextCodec]_vars

(***************************************************************************)
(* The hydrate flag: to_model of both schemas and the workspace reads      *)
(***************************************************************************)

NextHydrate ==
    \/ CreateTrigger("t1", TriggerRequest("default", "u1", "es1", DocA, DocB,
                                          "n1", "d1"))
    \/ CreateExecution("x1", ExecutionRequest("t1", DocA))
    \/ \E m \in BOOLEAN, r \in BOOLEAN : ReadTrigger("t1", m, r)
    \/ \E m \in BOOLEAN, r \in BOOLEAN : ReadExecution("x1", m, r)
    \/ \E e \in { "list_workspaces", "get_workspace" }, k \in WorkspaceKeys,
          h \in { "unset", "true", "false" },
          c \in { "valid", "invalid" } : ReceiveRequest(e, k, h, c)
    \/ Authorize
    \/ list_workspaces
    \/ get_workspace

SpecHydrate == InitTrigger /\ [][NextHydrate]_vars

(***************************************************************************)
(* The dispatcher: filter evaluator, trigger registry and dispatch state   *)
(* machine.  Its code is not among the sources; it is modelled from the    *)
(* component design and the concurrency model of the specification.  The   *)
(* execution records it appends are rows of the trigger_execution table,   *)
(* built by TriggerExecutionSchema.from_request.                           *)
(***************************************************************************)

EventIds == { "e1", "e2" }

ItemsOf(doc) == { doc.items[i] : i \in 1 .. Len(doc.items) }

\* matches(event, filter_config): every item of the filter is an item of
\* the event's payload; a filter that is not a mapping cannot be interpreted
\* (ConfigurationError) and the trigger counts as not matching.
matches(payload, filter_config) ==
    IF filter_config = JError \/ filter_config.t # "dict"
    THEN FALSE
    ELSE ItemsOf(filter_config) \subseteq ItemsOf(payload)

\* A mutant of the registry lookup: inactive triggers are returned too.
triggers_for_any(event_source_id) ==
    { t \in DOMAIN triggers :
        triggers[t].event_source_id = event_source_id }

\* triggers_for(event_source_id): the active triggers bound to the source.
triggers_for(event_source_id) ==
    { t \in DOMAIN triggers :
        /\ triggers[t].event_source_id = event_source_id
        /\ triggers[t].is_active }

\* The states of one trigger's evaluation in which nothing more happens.
Terminal == { "SKIPPED", "ABANDONED", "EXECUTED", "UNRECORDED", "FAILED" }

Evaluating(e, t, state) ==
    /\ e \in DOMAIN dispatches
    /\ dispatches[e].state = "MATCHING"
    /\ t \in DOMAIN dispatches[e].evals
    /\ dispatches[e].evals[t] = state

\* The dispatch of e with trigger t's evaluation moved to state.
Moved(e, t, state) ==
    [dispatches EXCEPT ![e].evals[t] = state]

\* The calls made to the executor for the pair (e, t).
CallsFor(e, t) == { c \in executor_calls : c.event = e /\ c.trigger = t }

\* execute(flavor, subtype, config, event_metadata) for the pair (e, t), from
\* the trigger state row.
Invocation(e, t, row) ==
    [ event |-> e,
      trigger |-> t,
      attempt |-> Cardinality(CallsFor(e, t)) + 1,
      row |-> row,
      flavor |-> row.action_flavor,
      subtype |-> row.action_subtype,
      config |-> decode_document(row.action),
      event_metadata |-> dispatches[e].payload,
      outcome |-> "pending" ]

\* The executor's call for (e, t) that is in flight gets its outcome.
Reported(e, t, outcome) ==
    { IF c.event = e /\ c.trigger = t /\ c.outcome = "pending"
      THEN [c EXCEPT !.outcome = outcome] ELSE c : c \in executor_calls }

\* The id of the execution record of the n-th record for (e, t).
RecordId(e, t, n) ==
    IF n = 0 THEN "x_" \o e \o "_" \o t ELSE "x_" \o e \o "_" \o t \o "_again"

\* RECEIVED: an event is accepted from an event source.
ReceiveEvent(e, source, payload) ==
    /\ e \notin DOMAIN dispatches
    /\ source \in DOMAIN event_sources
    /\ dispatches' = WithRow(dispatches, e,
          [ source |-> source, payload |-> payload, state |-> "RECEIVED",
            snapshot |-> << >>, evals |-> << >>, recorded |-> << >> ])
    /\ UNCHANGED <<executor_calls, rbacVars, httpVars, tableVars, storeVars>>

\* MATCHING: the registry lookup; the dispatch keeps the trigger states it
\* found as its snapshot and evaluates each of them independently.
BeginMatching(e) ==
    /\ e \in DOMAIN dispatches
    /\ dispatches[e].state = "RECEIVED"
    /\ LET found == triggers_for(dispatches[e].source) IN
       dispatches' = [dispatches EXCEPT ![e] =
          [ @ EXCEPT !.state = "MATCHING",
                     !.snapshot = [ t \in found |-> triggers[t] ],
                     !.evals = [ t \in found |-> "MATCHING" ],
                     !.recorded = [ t \in found |-> 0 ] ]]
    /\ UNCHANGED <<executor_calls, rbacVars, httpVars, tableVars, storeVars>>

\* A mutant of the evaluation: the filter is the snapshot's, the action is
\* read from the stored trigger at the time of the call.
EvaluateLive(e, t) ==
    /\ Evaluating(e, t, "MATCHING")
    /\ IF matches(dispatches[e].payload,
                  decode_document(dispatches[e].snapshot[t].event_filter))
       THEN /\ dispatches' = Moved(e, t, "DISPATCHING")
            /\ executor_calls' = executor_calls \cup
                 { Invocation(e, t,
                     IF t \in DOMAIN triggers
                     THEN [dispatches[e].snapshot[t] EXCEPT
                             !.action = triggers[t].action]
                     ELSE dispatches[e].snapshot[t]) }
       ELSE /\ dispatches' = Moved(e, t, "SKIPPED")
            /\ executor_calls' = executor_calls
    /\ UNCHANGED <<rbacVars, httpVars, tableVars, storeVars>>

\* A mutant of the evaluation: the execution record is appended when the
\* executor is invoked.
EvaluateRecordingFirst(e, t) ==
    /\ Evaluating(e, t, "MATCHING")
    /\ IF matches(dispatches[e].payload,
                  decode_document(dispatches[e].snapshot[t].event_filter))
       THEN /\ dispatches' = Moved(e, t, "DISPATCHING")
            /\ executor_calls' = executor_calls \cup
                 { Invocation(e, t, dispatches[e].snapshot[t]) }
            /\ executions' =
                 IF t \in DOMAIN triggers
                 THEN WithRow(executions, RecordId(e, t, 0),
                        ExecutionFromRequest(
                          [ trigger |-> t,
                            event_metadata |-> dispatches[e].payload ],
                          RecordId(e, t, 0), now))
                 ELSE executions
       ELSE /\ dispatches' = Moved(e, t, "SKIPPED")
            /\ executor_calls' = executor_calls
            /\ executions' = executions
    /\ UNCHANGED <<rbacVars, httpVars, workspaces, users, event_sources,
                   triggers, actions, storeVars>>

\* Filter evaluation of one candidate trigger of the snapshot.  A match is
\* DISPATCHING: the executor is invoked with the trigger's action flavor,
\* subtype and configuration and the event.  No match is skipped silently.
Evaluate(e, t) ==
    /\ Evaluating(e, t, "MATCHING")
    /\ IF matches(dispatches[e].payload,
                  decode_document(dispatches[e].snapshot[t].event_filter))
       THEN /\ dispatches' = Moved(e, t, "DISPATCHING")
            /\ executor_calls' = executor_calls \cup
                 { Invocation(e, t, dispatches[e].snapshot[t]) }
       ELSE /\ dispatches' = Moved(e, t, "SKIPPED")
            /\ executor_calls' = executor_calls
    /\ UNCHANGED <<rbacVars, httpVars, tableVars, storeVars>>

\* The trigger is stored, active and bound to a stored event source.
Live(t) ==
    /\ t \in DOMAIN triggers
    /\ triggers[t].is_active
    /\ triggers[t].event_source_id \in DOMAIN event_sources

\* Cancellation: an evaluation that has not reached DISPATCHING may be
\* abandoned once its trigger is disabled or gone or its event source is
\* deleted (best effort: Evaluate stays possible).
Abandon(e, t) ==
    /\ Evaluating(e, t, "MATCHING")
    /\ ~Live(t)
    /\ dispatches' = Moved(e, t, "ABANDONED")
    /\ UNCHANGED <<executor_calls, rbacVars, httpVars, tableVars, storeVars>>

\* A mutant of the success report: no record is appended when the table
\* already holds one for the same trigger and the same event metadata.
ExecutorSucceedsDeduplicating(e, t) ==
    LET id == RecordId(e, t, dispatches[e].recorded[t])
        request == [ trigger |-> t, event_metadata |-> dispatches[e].payload ]
        row == ExecutionFromRequest(request, id, now)
        known == \E x \in DOMAIN executions :
                    /\ executions[x].trigger_id = row.trigger_id
                    /\ executions[x].event_metadata = row.event_metadata
    IN
    /\ Evaluating(e, t, "DISPATCHING")
    /\ executor_calls' = Reported(e, t, "success")
    /\ IF known
       THEN /\ executions' = executions
            /\ lastOp' = lastOp
            /\ dispatches' = Moved(e, t, "EXECUTED")
       ELSE IF ReferencesHold(row, ExecutionForeignKeys)
       THEN /\ executions' = WithRow(executions, id, row)
            /\ lastOp' = Op("create_trigger_execution", id, request, "ok")
            /\ dispatches' =
                 [Moved(e, t, "EXECUTED") EXCEPT ![e].recorded[t] = @ + 1]
       ELSE /\ executions' = executions
            /\ lastOp' = Op("create_trigger_execution", id, request,
                            "IntegrityError")
            /\ dispatches' = Moved(e, t, "UNRECORDED")
    /\ UNCHANGED <<rbacVars, httpVars, workspaces, users, event_sources,
                   triggers, actions, now, document>>

\* EXECUTED: the executor reports success and the execution record is
\* appended: the row TriggerExecutionSchema.from_request builds is inserted,
\* which the table's foreign key refuses when the trigger is gone.
ExecutorSucceeds(e, t) ==
    LET id == RecordId(e, t, dispatches[e].recorded[t])
        request == [ trigger |-> t, event_metadata |-> dispatches[e].payload ]
        row == ExecutionFromRequest(request, id, now)
    IN
    /\ Evaluating(e, t, "DISPATCHING")
    /\ executor_calls' = Reported(e, t, "success")
    /\ IF ReferencesHold(row, ExecutionForeignKeys)
       THEN /\ executions' = WithRow(executions, id, row)
            /\ lastOp' = Op("create_trigger_execution", id, request, "ok")
            /\ dispatches' =
                 [Moved(e, t, "EXECUTED") EXCEPT ![e].recorded[t] = @ + 1]
       ELSE /\ executions' = executions
            /\ lastOp' = Op("create_trigger_execution", id, request,
                            "IntegrityError")
            /\ dispatches' = Moved(e, t, "UNRECORDED")
    /\ UNCHANGED <<rbacVars, httpVars, workspaces, users, event_sources,
                   triggers, actions, now, document>>

\* A mutant of the failure report: the failure ends the dispatch, and the
\* evaluations that have not been made are dropped.
ExecutorFailsAborting(e, t) ==
    /\ Evaluating(e, t, "DISPATCHING")
    /\ executor_calls' = Reported(e, t, "failure")
    /\ dispatches' = [dispatches EXCEPT ![e].evals =
          [ u \in DOMAIN @ |->
              IF u = t THEN "FAILED"
              ELSE IF @[u] = "MATCHING" THEN "ABANDONED" ELSE @[u] ]]
    /\ UNCHANGED <<rbacVars, httpVars, tableVars, storeVars>>

\* FAILED: the executor reports failure; it is logged, nothing is recorded,
\* nothing is retried, and the other evaluations go on.
ExecutorFails(e, t) ==
    /\ Evaluating(e, t, "DISPATCHING")
    /\ executor_calls' = Reported(e, t, "failure")
    /\ dispatches' = Moved(e, t, "FAILED")
    /\ UNCHANGED <<rbacVars, httpVars, tableVars, storeVars>>

\* The dispatch of e has finished: every evaluation has ended.
Finished(e) ==
    /\ e \in DOMAIN dispatches
    /\ dispatches[e].state = "MATCHING"
    /\ \A t \in DOMAIN dispatches[e].evals : dispatches[e].evals[t] \in Terminal

\* t1 matches every event; t2 matches the events that carry {"a": 1}.
DispatchTriggerRequests ==
    [ t1 |-> { TriggerRequest("default", "u1", "es1", DocEmpty, DocA, "n1",
                              "d1") },
      t2 |-> { TriggerRequest("default", "u1", "es1", f, DocA, "n2", "d2") :
                 f \in { DocA, DocB } } ]

\* The write made under dispatch: the trigger is disabled and given another
\* action configuration.
DispatchTriggerUpdates ==
    { TriggerUpdate(Unset, Unset, Unset, Given(DocB), Given(FALSE)) }

NextDispatch ==
    \/ \E t \in TriggerIds :
          \E r \in DispatchTriggerRequests[t] : CreateTrigger(t, r)
    \/ \E t \in TriggerIds, u \in DispatchTriggerUpdates : UpdateTrigger(t, u)
    \/ \E t \in TriggerIds : DeleteTrigger(t)
    \/ DeleteEventSource("es1")
    \/ ReceiveEvent("e1", "es1", DocA)
    \/ "e1" \in DOMAIN dispatches /\ ReceiveEvent("e2", "es1", DocA)
    \/ \E e \in EventIds : BeginMatching(e)
    \/ \E e \in EventIds, t \in TriggerIds : Evaluate(e, t)
    \/ \E e \in EventIds, t \in TriggerIds : Abandon(e, t)
    \/ \E e \in EventIds, t \in TriggerIds : ExecutorSucceeds(e, t)
    \/ \E e \in EventIds, t \in TriggerIds : ExecutorFails(e, t)

SpecDispatch == InitTrigger /\ [][NextDispatch]_vars

(***************************************************************************)
(* Claims about the workspace endpoints                                    *)
(***************************************************************************)

CallIndexes == 1 .. Len(calls)

\* C3 as stated: no call to the store happens on a request for which an RBAC
\* {Action, Resource} permission check has not been performed and passed.
C3_AsStated ==
    \A i \in CallIndexes :
        IsStoreCall(calls[i]) =>
            \E j \in 1 .. (i - 1) : IsPermissionCheck(calls[j])

\* C3 amended: a workspace endpoint calls the store only on a request that
\* the authorize dependency has let through (authentication), and it verifies
\* no {Action, Resource} permission before doing so; RBAC enters only as the
\* allowed-resource-id filters that the statistics endpoint fetches before
\* each of its four count calls, and as the dehydration of the store's answer.
C3_AuthenticatedOnly ==
    /\ \A i \in CallIndexes :
          /\ ~IsPermissionCheck(calls[i])
          /\ IsStoreCall(calls[i]) =>
                /\ httpRequest.credentials = "valid"
                /\ \E j \in 1 .. (i - 1) : calls[j].fn = "authorize"
          /\ calls[i].fn \in { "zen_store.count_stacks",
                               "zen_store.count_stack_components",
                               "zen_store.count_pipelines",
                               "zen_store.count_runs" } =>
                \E j \in 1 .. (i - 1) :
                    /\ calls[j].fn = "get_allowed_resource_ids"
                    /\ calls[j].arg = calls[i].arg
          /\ calls[i].fn \in { "dehydrate_page", "dehydrate_response_model" } =>
                \E j \in 1 .. (i - 1) : IsStoreCall(calls[j])
    /\ response.status = 401 => \A i \in CallIndexes : ~IsStoreCall(calls[i])

\* A workspace has been deleted by an authenticated request that made no
\* permission check.
C3_Witness ==
    /\ httpRequest.endpoint = "delete_workspace"
    /\ httpRequest.pc = "done"
    /\ response.status = 200
    /\ httpRequest.key \notin workspaces
    /\ \E i \in CallIndexes : calls[i].fn = "zen_store.delete_workspace"


(***************************************************************************)
(* zen_server/rbac/models.py                                               *)
(***************************************************************************)

\* The members of the ResourceType enum.
ResourceType ==
    { "action", "artifact", "artifact_version", "code_repository",
      "event_source", "flavor", "model", "model_version", "pipeline",
      "pipeline_run", "pipeline_deployment", "pipeline_build",
      "run_template", "service", "run_metadata", "secret",
      "service_account", "service_connector", "stack", "stack_component",
      "tag", "trigger", "trigger_execution" }

\* The members that are commented out of the enum ("Deactivated for now").
DeactivatedTypes == { "user", "workspace" }

is_flexible_scoped(t) ==
    t \in { "flavor", "secret", "service_connector", "stack",
            "stack_component" }

is_unscoped(t) == t \in { "service_account" }

\* A mutant of is_workspace_scoped: the unscoped types are not excluded.
not_flexible_scoped(t) == ~is_flexible_scoped(t)

is_workspace_scoped(t) == ~is_flexible_scoped(t) /\ ~is_unscoped(t)

\* A mutant of validate_workspace_id: the second check is lost.
validate_no_unscoped_check(r) ==
    IF r.type \notin ResourceType THEN "ValueError"
    ELSE IF is_workspace_scoped(r.type) /\ r.workspace_id = None
         THEN "ValueError"
    ELSE "ok"

\* Resource.validate_workspace_id: "ok" when the validator returns self,
\* "ValueError" when it raises (ResourceType(self.type) raises ValueError
\* for a string that is no member of the enum).
validate_workspace_id(r) ==
    IF r.type \notin ResourceType THEN "ValueError"
    ELSE IF is_workspace_scoped(r.type) /\ r.workspace_id = None
         THEN "ValueError"
    ELSE IF is_unscoped(r.type) /\ r.workspace_id # None
         THEN "ValueError"
    ELSE "ok"

\* A mutant of the model configuration: the model is not frozen.
not_frozen == FALSE

\* model_config = ConfigDict(frozen=True)
frozen == TRUE

\* The bound on the number of Resource objects alive at once.
MaxResources == 1

ResourceIds == { None, "r1" }
WorkspaceIds == { "w1" }

ResourceInputs ==
    [ type : ResourceType \cup DeactivatedTypes,
      id : ResourceIds,
      workspace_id : WorkspaceIds \cup { None } ]

\* Resource(type=..., id=..., workspace_id=...): the fields are set, then the
\* "after" model validator runs; the object exists only if it returns.
ConstructResource(r) ==
    LET outcome == validate_workspace_id(r) IN
    /\ rbacOp' = [ op |-> "construct", arg |-> r, outcome |-> outcome ]
    /\ resources' =
         IF outcome = "ok" /\ Cardinality(resources \cup {r}) <= MaxResources
         THEN resources \cup {r}
         ELSE resources
    /\ UNCHANGED <<dispatchVars, httpVars, tableVars, storeVars>>

\* resource.workspace_id = v on a constructed Resource: a frozen model raises
\* and keeps its fields; a model that is not frozen assigns without running
\* the validator (validate_assignment is not set).
SetWorkspaceId(r, v) ==
    /\ r \in resources
    /\ IF frozen
       THEN /\ rbacOp' = [ op |-> "setattr", arg |-> [r EXCEPT !.workspace_id = v],
                           outcome |-> "FrozenError" ]
            /\ resources' = resources
       ELSE /\ rbacOp' = [ op |-> "setattr", arg |-> [r EXCEPT !.workspace_id = v],
                           outcome |-> "ok" ]
            /\ resources' = (resources \ {r}) \cup {[r EXCEPT !.workspace_id = v]}
    /\ UNCHANGED <<dispatchVars, httpVars, tableVars, storeVars>>

\* A Resource goes out of use.
DropResource(r) ==
    /\ r \in resources
    /\ rbacOp' = [ op |-> "drop", arg |-> r, outcome |-> "ok" ]
    /\ resources' = resources \ {r}
    /\ UNCHANGED <<dispatchVars, httpVars, tableVars, storeVars>>

NextRbac ==
    \/ \E r \in ResourceInputs : ConstructResource(r)
    \/ \E r \in resources, v \in WorkspaceIds \cup { None } : SetWorkspaceId(r, v)
    \/ \E r \in resources : DropResource(r)

SpecRbac == InitRbac /\ [][NextRbac]_vars

(***************************************************************************)
(* Claims about the RBAC resource model                                    *)
(***************************************************************************)

LastConstruct == rbacOp.op = "construct" /\ rbacOp.arg.type \in ResourceType

\* C1 as stated: construction with a workspace_id succeeds if and only if the
\* type is workspace-scoped, and a constructed Resource of a type that is not
\* workspace-scoped never carries a workspace_id.
C1_AsStated ==
    /\ (LastConstruct /\ rbacOp.arg.workspace_id # None) =>
          (rbacOp.outcome = "ok" <=> is_workspace_scoped(rbacOp.arg.type))
    /\ \A r \in resources :
          ~is_workspace_scoped(r.type) => r.workspace_id = None

\* C1 amended: with a workspace_id, construction succeeds if and only if the
\* type is not unscoped (it is workspace-scoped or flexible-scoped); without
\* one, if and only if the type is not workspace-scoped (it is unscoped or
\* flexible-scoped); a constructed Resource of an unscoped type never carries
\* a workspace_id and one of a workspace-scoped type always does.
C1_ScopeRule ==
    /\ LastConstruct =>
          (rbacOp.outcome = "ok" <=>
              IF rbacOp.arg.workspace_id # None
              THEN ~is_unscoped(rbacOp.arg.type)
              ELSE ~is_workspace_scoped(rbacOp.arg.type))
    /\ \A r \in resources :
          /\ is_unscoped(r.type) => r.workspace_id = None
          /\ is_workspace_scoped(r.type) => r.workspace_id # None

\* A flexible-scoped Resource has been constructed with a workspace_id.
C1_Witness ==
    /\ LastConstruct
    /\ rbacOp.outcome = "ok"
    /\ is_flexible_scoped(rbacOp.arg.type)
    /\ rbacOp.arg.workspace_id # None
    /\ rbacOp.arg \in resources

ViolatesScoping(r) ==
    \/ r.type \in ResourceType /\ is_workspace_scoped(r.type)
          /\ r.workspace_id = None
    \/ r.type \in ResourceType /\ is_unscoped(r.type) /\ r.workspace_id # None

\* C2: construction is rejected (ValueError, surfaced as a validation error)
\* for a workspace-scoped type without workspace_id and for an unscoped type
\* with one; no existing Resource violates either rule; an assignment to a
\* constructed Resource is refused because the model is frozen.
C2_RejectedAndFrozen ==
    /\ (rbacOp.op = "construct" /\ ViolatesScoping(rbacOp.arg)) =>
          (rbacOp.outcome = "ValueError" /\ rbacOp.arg \notin resources)
    /\ \A r \in resources : ~ViolatesScoping(r)
    /\ rbacOp.op = "setattr" =>
          (rbacOp.outcome = "FrozenError"
             /\ (ViolatesScoping(rbacOp.arg) => rbacOp.arg \notin resources))

\* An assignment that would have produced a violating Resource was refused.
C2_Witness ==
    /\ rbacOp.op = "setattr"
    /\ rbacOp.outcome = "FrozenError"
    /\ ViolatesScoping(rbacOp.arg)
    /\ resources # {}

(***************************************************************************)
(* Claims about the trigger schemas and the store                          *)
(***************************************************************************)

LastUpdate ==
    /\ lastOp.op = "update_trigger"
    /\ lastOp.id \in DOMAIN triggers

\* C4 as stated: every field of the trigger that the update does not supply
\* has the same value after the update as before it.
C4_AsStated ==
    [][ lastOp'.op = "update_trigger" =>
          \A f \in DOMAIN triggers[lastOp'.id] :
              f \notin Supplied(lastOp'.arg) =>
                  triggers'[lastOp'.id][f] = triggers[lastOp'.id][f] ]_vars

\* C4 amended: every field of the trigger that the update does not supply,
\* other than the updated timestamp, has the same value after the update as
\* before it; the updated timestamp is set to the time of the update by
\* every update, whatever it supplies; a field supplied as None is left as
\* it was.
C4_FrameExceptUpdated ==
    [][ lastOp'.op = "update_trigger" =>
          /\ \A f \in (DOMAIN triggers[lastOp'.id]) \ { "updated" } :
                f \notin Supplied(lastOp'.arg) =>
                    triggers'[lastOp'.id][f] = triggers[lastOp'.id][f]
          /\ triggers'[lastOp'.id].updated = now ]_vars

\* An update that supplied only is_active has moved the updated timestamp.
C4_Witness ==
    /\ LastUpdate
    /\ Supplied(lastOp.arg) = { "is_active" }
    /\ lastOp.arg.description = GivenNone
    /\ triggers[lastOp.id].updated > triggers[lastOp.id].created
    /\ triggers[lastOp.id].description = "d1"

KeysOf(doc) == { doc.items[i].k : i \in 1 .. Len(doc.items) }

\* What to_model gives for the two documents of a stored trigger.
ReadBack(id) == TriggerToModel(triggers[id], TRUE, FALSE).metadata

\* C5: after an update that supplies a filter document (or an action
\* document), reading the trigger back yields exactly that document, with no
\* key of the previous document that the new one lacks.
C5_WholesaleReplace ==
    LastUpdate =>
        /\ "event_filter" \in Supplied(lastOp.arg) =>
              /\ ReadBack(lastOp.id).event_filter = lastOp.arg.event_filter.v
              /\ \A k \in KeysOf(decode_document(lastOp.result.event_filter)) :
                    k \notin KeysOf(lastOp.arg.event_filter.v) =>
                        k \notin KeysOf(ReadBack(lastOp.id).event_filter)
        /\ "action" \in Supplied(lastOp.arg) =>
              /\ ReadBack(lastOp.id).action = lastOp.arg.action.v
              /\ \A k \in KeysOf(decode_document(lastOp.result.action)) :
                    k \notin KeysOf(lastOp.arg.action.v) =>
                        k \notin KeysOf(ReadBack(lastOp.id).action)

\* A trigger whose filter was {"a": 1} has been updated with {"b": 2}.
C5_Witness ==
    /\ LastUpdate
    /\ lastOp.arg.event_filter = Given(DocB)
    /\ decode_document(lastOp.result.event_filter) = DocA
    /\ ReadBack(lastOp.id).event_filter = DocB

\* C6: a document given as a trigger's filter or action configuration, on
\* create or on update, or as an execution's event metadata, is read back by
\* to_model as an equal document.
C6_RoundTrip ==
    /\ (lastOp.op = "create_trigger" /\ lastOp.result = "ok") =>
          /\ ReadBack(lastOp.id).event_filter = lastOp.arg.event_filter
          /\ ReadBack(lastOp.id).action = lastOp.arg.action
    /\ LastUpdate =>
          /\ "event_filter" \in Supplied(lastOp.arg) =>
                ReadBack(lastOp.id).event_filter = lastOp.arg.event_filter.v
          /\ "action" \in Supplied(lastOp.arg) =>
                ReadBack(lastOp.id).action = lastOp.arg.action.v
    /\ (lastOp.op = "create_trigger_execution" /\ lastOp.result = "ok") =>
          ExecutionToModel(executions[lastOp.id], TRUE, FALSE)
              .metadata.event_metadata = lastOp.arg.event_metadata
    /\ (lastOp.op = "get_trigger_execution") =>
          lastOp.result.metadata.event_metadata = document

\* A document with a nested dict and escaped characters has been stored as
\* an execution's event metadata and read back.
C6_Witness ==
    /\ lastOp.op = "get_trigger_execution"
    /\ lastOp.result.metadata.event_metadata = document
    /\ document.items # << >>
    /\ document.items[1].k = << "b", "\"" >>
    /\ document.items[1].v.t = "dict"

HasExecution(t) ==
    \E x \in DOMAIN executions : executions[x].trigger_id = t

\* C7 as stated: a trigger that executions reference is removed only by its
\* own deletion, never as a side effect of another operation.
C7_AsStated ==
    [][ \A t \in DOMAIN triggers :
          (HasExecution(t) /\ t \notin DOMAIN triggers') =>
              (lastOp'.op = "delete_trigger" /\ lastOp'.id = t) ]_vars

\* C8: every stored execution references a stored trigger, and the deletion
\* of a trigger removes the executions that referenced it.
C8_NoOrphanExecution ==
    /\ \A x \in DOMAIN executions :
          executions[x].trigger_id \in DOMAIN triggers
    /\ lastOp.op = "delete_trigger" =>
          \A x \in DOMAIN executions : executions[x].trigger_id # lastOp.id

\* A trigger with two executions has been deleted, and they went with it.
C8_Witness ==
    /\ lastOp.op = "delete_trigger"
    /\ lastOp.arg.executions = ExecutionIds
    /\ executions = << >>
    /\ triggers # << >>

IsActionOp(op) == op \in { "create_action", "update_action", "delete_action" }

\* C10: creating, updating or deleting an action leaves every stored trigger
\* in place with its action_flavor, action_subtype and action configuration
\* as they were, in the row and in what to_model reads from it.
C10_ActionSnapshot ==
    /\ [][ IsActionOp(lastOp'.op) =>
             \A t \in DOMAIN triggers :
                 /\ t \in DOMAIN triggers'
                 /\ triggers'[t].action_flavor = triggers[t].action_flavor
                 /\ triggers'[t].action_subtype = triggers[t].action_subtype
                 /\ triggers'[t].action = triggers[t].action ]_vars
    /\ [](\A t \in DOMAIN triggers :
             LET model == TriggerToModel(triggers[t], TRUE, FALSE)
             IN  /\ model.body.action_flavor = triggers[t].action_flavor
                 /\ model.body.action_subtype = triggers[t].action_subtype
                 /\ model.metadata.action
                       = decode_document(triggers[t].action))

\* An action of a trigger's flavor and subtype has been given a new
\* configuration, and the trigger still reads its own.
C10_Witness ==
    /\ lastOp.op = "update_action"
    /\ lastOp.arg.configuration = Given(DocB)
    /\ actions[lastOp.id].configuration = DocB
    /\ \E t \in DOMAIN triggers :
          /\ triggers[t].action_flavor = actions[lastOp.id].flavor
          /\ triggers[t].action_subtype = actions[lastOp.id].plugin_subtype
          /\ decode_document(triggers[t].action) = DocA

\* C11: an execution that stays stored keeps its row (trigger_id,
\* event_metadata and the rest) across every operation, updates of its
\* trigger included, and an execution goes away only in a step that also
\* removes the trigger it references.
C11_ExecutionsImmutable ==
    [][ \A x \in DOMAIN executions :
          IF x \in DOMAIN executions'
          THEN executions'[x] = executions[x]
          ELSE /\ executions[x].trigger_id \in DOMAIN triggers
               /\ executions[x].trigger_id \notin DOMAIN triggers' ]_vars

\* A trigger with an execution has been updated, and the execution still
\* carries the document it was created with.
C11_Witness ==
    /\ LastUpdate
    /\ lastOp.arg.action = Given(DocB)
    /\ \E x \in DOMAIN executions :
          /\ executions[x].trigger_id = lastOp.id
          /\ executions[x].event_metadata = encode_document(DocA)

(***************************************************************************)
(* Claims about hydration                                                  *)
(***************************************************************************)

HasSection(model, section) ==
    section \in DOMAIN model /\ model[section] # Absent

\* The hydrate flag of the store calls that the get and list endpoints make
\* is the flag of the request.
HydratePassedThrough ==
    httpRequest.endpoint \in { "list_workspaces", "get_workspace" } =>
        \A i \in CallIndexes :
            calls[i].fn \in { "zen_store.list_workspaces",
                              "zen_store.get_workspace" } =>
                /\ calls[i].hydrate = httpRequest.hydrate
                /\ calls[i].hydrate \in { "true", "false" }

TriggerSections ==
    lastOp.op = "get_trigger" =>
        /\ HasSection(lastOp.result, "body")
        /\ HasSection(lastOp.result, "metadata") <=> lastOp.arg.include_metadata
        /\ HasSection(lastOp.result, "resources")
              <=> lastOp.arg.include_resources

\* C12 as stated: a trigger's and an execution's response model have the
\* metadata section exactly when include_metadata is true and the resources
\* section exactly when include_resources is true, the body always; get and
\* list pass the hydrate flag through.
C12_AsStated ==
    /\ TriggerSections
    /\ lastOp.op = "get_trigger_execution" =>
          /\ HasSection(lastOp.result, "body")
          /\ HasSection(lastOp.result, "metadata")
                <=> lastOp.arg.include_metadata
          /\ HasSection(lastOp.result, "resources")
                <=> lastOp.arg.include_resources
    /\ HydratePassedThrough

\* C12 amended: as stated for the trigger; an execution's response model has
\* the metadata section exactly when include_metadata is true, the body
\* always, and never a resources section, whatever include_resources is.
C12_HydrateDecides ==
    /\ TriggerSections
    /\ lastOp.op = "get_trigger_execution" =>
          /\ HasSection(lastOp.result, "body")
          /\ HasSection(lastOp.result, "metadata")
                <=> lastOp.arg.include_metadata
          /\ ~HasSection(lastOp.result, "resources")
    /\ HydratePassedThrough

\* An execution has been read with include_resources and without
\* include_metadata.
C12_Witness ==
    /\ lastOp.op = "get_trigger_execution"
    /\ lastOp.arg.include_resources
    /\ ~lastOp.arg.include_metadata
    /\ HasSection(lastOp.result, "body")
    /\ ~HasSection(lastOp.result, "metadata")

(***************************************************************************)
(* Claims about the dispatcher                                             *)
(***************************************************************************)

\* The filter of the trigger state that the dispatch of e evaluates for t
\* matches the event.
Matched(e, t) ==
    matches(dispatches[e].payload,
            decode_document(dispatches[e].snapshot[t].event_filter))

Succeeded(e, t) == \E c \in CallsFor(e, t) : c.outcome = "success"

\* The number of execution records created for the event e.
RECURSIVE SumRecorded(_, _)
SumRecorded(e, ts) ==
    IF ts = {} THEN 0
    ELSE LET t == CHOOSE u \in ts : TRUE
         IN  dispatches[e].recorded[t] + SumRecorded(e, ts \ { t })

RecordsCreated(e) == SumRecorded(e, DOMAIN dispatches[e].recorded)

SiblingFailed(e, t) ==
    \E u \in (DOMAIN dispatches[e].evals) \ { t } :
        dispatches[e].evals[u] = "FAILED"

C16_RecordAfterSuccess ==
    /\ [](/\ \A e \in DOMAIN dispatches :
                \A t \in DOMAIN dispatches[e].evals :
                    /\ dispatches[e].recorded[t] > 0 => Succeeded(e, t)
                    /\ RecordId(e, t, 0) \in DOMAIN executions
                          => Succeeded(e, t)
                    /\ dispatches[e].evals[t] \in
                          { "MATCHING", "SKIPPED", "ABANDONED", "DISPATCHING",
                            "FAILED" }
                          => /\ dispatches[e].recorded[t] = 0
                             /\ RecordId(e, t, 0) \notin DOMAIN executions
          /\ \A x \in DOMAIN executions :
                \E c \in executor_calls :
                    /\ c.outcome = "success"
                    /\ x = RecordId(c.event, c.trigger, 0)
                    /\ executions[x].trigger_id = c.trigger)
    /\ [][ \A x \in (DOMAIN executions') \ (DOMAIN executions) :
             \E c \in executor_calls :
                 /\ c.outcome = "pending"
                 /\ x = RecordId(c.event, c.trigger, 0)
                 /\ [c EXCEPT !.outcome = "success"] \in executor_calls'
           ]_vars

\* Two dispatches interleave: the first has its record for t1 after the
\* executor's success, the second has its call for t1 in flight and no
\* record.
C16_Witness ==
    /\ { "e1", "e2" } \subseteq DOMAIN dispatches
    /\ "t1" \in DOMAIN dispatches["e1"].evals
    /\ "t1" \in DOMAIN dispatches["e2"].evals
    /\ dispatches["e1"].evals["t1"] = "EXECUTED"
    /\ dispatches["e2"].evals["t1"] = "DISPATCHING"
    /\ RecordId("e1", "t1", 0) \in DOMAIN executions
    /\ RecordId("e2", "t1", 0) \notin DOMAIN executions
    /\ \E c \in CallsFor("e2", "t1") : c.outcome = "pending"

C18_ActiveOnCreation ==
    /\ []((lastOp.op = "create_trigger" /\ lastOp.result = "ok") =>
             /\ lastOp.id \in DOMAIN triggers
             /\ triggers[lastOp.id].is_active)
    /\ [][ \A t \in DOMAIN triggers' :
             ~triggers'[t].is_active =>
                 /\ t \in DOMAIN triggers
                 /\ \/ ~triggers[t].is_active
                    \/ /\ lastOp'.op = "update_trigger"
                       /\ lastOp'.id = t
                       /\ lastOp'.arg.is_active = Given(FALSE) ]_vars

\* A trigger created from a request without a description is active.
C18_Witness ==
    /\ lastOp.op = "create_trigger"
    /\ lastOp.result = "ok"
    /\ lastOp.arg.description = None
    /\ triggers[lastOp.id].is_active
    /\ triggers[lastOp.id].description = None

(***************************************************************************)
(* Further claims about the RBAC resource model                            *)
(***************************************************************************)

\* The scope predicates that hold of a resource type.
ScopesOf(t) ==
    { p \in { "flexible", "workspace", "unscoped" } :
        \/ p = "flexible" /\ is_flexible_scoped(t)
        \/ p = "workspace" /\ is_workspace_scoped(t)
        \/ p = "unscoped" /\ is_unscoped(t) }

\* C19: every resource type satisfies exactly one of is_flexible_scoped,
\* is_workspace_scoped and is_unscoped; the flexible-scoped types are flavor,
\* secret, service_connector, stack and stack_component; and constructing a
\* Resource of a flexible-scoped type succeeds with and without workspace_id.
C19_ScopesPartition ==
    /\ \A t \in ResourceType : Cardinality(ScopesOf(t)) = 1
    /\ { t \in ResourceType : is_flexible_scoped(t) }
          = { "flavor", "secret", "service_connector", "stack",
              "stack_component" }
    /\ (rbacOp.op = "construct" /\ rbacOp.arg.type \in ResourceType) =>
          /\ Cardinality(ScopesOf(rbacOp.arg.type)) = 1
          /\ is_flexible_scoped(rbacOp.arg.type) => rbacOp.outcome = "ok"
          /\ is_unscoped(rbacOp.arg.type) =>
                (rbacOp.outcome = "ok" <=> rbacOp.arg.workspace_id = None)
          /\ is_workspace_scoped(rbacOp.arg.type) =>
                (rbacOp.outcome = "ok" <=> rbacOp.arg.workspace_id # None)

\* A secret has been constructed without a workspace_id while a Resource of
\* a flexible-scoped type with a workspace_id is in use.
C19_Witness ==
    /\ rbacOp.op = "construct"
    /\ rbacOp.arg.type = "secret"
    /\ rbacOp.arg.workspace_id = None
    /\ rbacOp.outcome = "ok"
    /\ \E r \in resources :
          is_flexible_scoped(r.type) /\ r.workspace_id # None

(***************************************************************************)
(* Further claims about the trigger row                                    *)
(***************************************************************************)

\* Whether stored bytes are the base64 encoding of the JSON text of a dict.
StoresDocument(bytes) ==
    /\ IsB64(bytes)
    /\ decode_document(bytes) # JError
    /\ decode_document(bytes).t = "dict"
    /\ encode_document(decode_document(bytes)) = bytes

\* C20: the stored event_filter and action of every trigger are the base64
\* encoding of a JSON document, neither raw nor encoded twice; to_model with
\* include_metadata yields both as documents; and after an update that does
\* not supply event_filter (or action) the stored bytes of that column are
\* the bytes stored before the update.
C20_EncodedAtBoundary ==
    /\ \A id \in DOMAIN triggers :
          /\ StoresDocument(triggers[id].event_filter)
          /\ StoresDocument(triggers[id].action)
    /\ (lastOp.op = "get_trigger" /\ lastOp.arg.include_metadata) =>
          /\ lastOp.result.metadata # Absent
          /\ lastOp.result.metadata.event_filter # JError
          /\ lastOp.result.metadata.event_filter.t = "dict"
          /\ lastOp.result.metadata.action # JError
          /\ lastOp.result.metadata.action.t = "dict"
    /\ LastUpdate =>
          \A f \in { "event_filter", "action" } :
              f \notin Supplied(lastOp.arg) =>
                  triggers[lastOp.id][f] = lastOp.result[f]

\* A trigger whose filter is {"a": 1} was updated with event_filter given as
\* None and no action, and holds the bytes it held before.
C20_Witness ==
    /\ LastUpdate
    /\ lastOp.arg.event_filter = GivenNone
    /\ lastOp.arg.action = Unset
    /\ lastOp.arg.name = Given("n2")
    /\ triggers[lastOp.id].event_filter = lastOp.result.event_filter
    /\ triggers[lastOp.id].event_filter = encode_document(DocA)
    /\ triggers[lastOp.id].action = encode_document(DocB)

====
